---------------------------- MODULE Spec2Model ----------------------------
(***************************************************************************)
(* LKGM candidate management of chromite's buildbot                        *)
(* (src/buildbot/lkgm_manager.py): the candidate version model             *)
(* (_LKGMCandidateInfo), the manager's entry points                        *)
(* (CreateNextLKGMCandidate, GetNextLKGMCandidate, GetOthersStatuses,      *)
(* PromoteLKGMCandidate) and the shared manifest store they act on.        *)
(*                                                                         *)
(* Python values are modelled with their types where the code's behaviour  *)
(* depends on them: text is a sequence of one-character strings, None is   *)
(* the one-element sequence <<"None">>, and a call that raises yields a    *)
(* record [t |-> "raise", err |-> <exception class>].                      *)
(***************************************************************************)
EXTENDS Integers, Sequences, FiniteSets, TLC

(***************************************************************************)
(* Text                                                                    *)
(***************************************************************************)
None == <<"None">>

Digits == <<"0", "1", "2", "3", "4", "5", "6", "7", "8", "9">>

IsDigit(c) == \E i \in 1..10 : Digits[i] = c

DigitVal(c) == CHOOSE i \in 0..9 : Digits[i + 1] = c

\* '%s' % n for a non-negative integer n: its decimal digits.
RECURSIVE IntStr(_)
IntStr(n) == IF n < 10 THEN <<Digits[n + 1]>>
             ELSE IntStr(n \div 10) \o <<Digits[(n % 10) + 1]>>

\* int(s) for a text of decimal digits.
RECURSIVE StrInt(_)
StrInt(s) == IF Len(s) = 0 THEN 0
             ELSE 10 * StrInt(SubSeq(s, 1, Len(s) - 1)) + DigitVal(s[Len(s)])

\* '%s' % x for the values the code formats: text stays as it is, None
\* prints as the text 'None'.
PyStr(x) == IF x = None THEN <<"N", "o", "n", "e">> ELSE x

(***************************************************************************)
(* LKGM_RE = '(\d+\.\d+\.\d+\.\d+)(?:-rc(\d+))?' and re.search             *)
(***************************************************************************)
\* The last index of the longest run of digits of s that starts at i
\* (i - 1 when s[i] is no digit): what a greedy \d+ consumes.
RECURSIVE DigitsEnd(_, _)
DigitsEnd(s, i) == IF i <= Len(s) /\ IsDigit(s[i]) THEN DigitsEnd(s, i + 1)
                   ELSE i - 1

CharAt(s, i, c) == i <= Len(s) /\ s[i] = c

\* (\d+\.){k-1}\d+ anchored at i: the index of its last character, or 0.
RECURSIVE GroupsEnd(_, _, _)
GroupsEnd(s, i, k) ==
  LET After(e) == IF e < i THEN 0
                  ELSE IF k = 1 THEN e
                  ELSE IF CharAt(s, e + 1, ".") THEN GroupsEnd(s, e + 2, k - 1)
                  ELSE 0
  IN After(DigitsEnd(s, i))

\* \d+\.\d+\.\d+\.\d+ anchored at i: the index of its last character, or 0.
VersionEnd(s, i) == GroupsEnd(s, i, 4)

\* (?:-rc(\d+))? right after index e: the index of the revision's last digit,
\* or 0 when the optional group matches nothing.
RevisionEnd(s, e) ==
  LET After(r) == IF /\ CharAt(s, e + 1, "-") /\ CharAt(s, e + 2, "r")
                     /\ CharAt(s, e + 3, "c") /\ r >= e + 4
                  THEN r ELSE 0
  IN After(DigitsEnd(s, e + 4))

\* The match whose first group spans s[i..e]. group(2) is None when the -rcN
\* suffix is absent.
MatchAt(s, i, e) ==
  LET Groups(r) == [matched |-> TRUE,
                    group1  |-> SubSeq(s, i, e),
                    group2  |-> IF r > 0 THEN SubSeq(s, e + 4, r) ELSE None]
  IN Groups(RevisionEnd(s, e))

\* re.search from index i on: the leftmost match.
RECURSIVE SearchFrom(_, _)
SearchFrom(s, i) ==
  LET Try(e) == IF e > 0 THEN MatchAt(s, i, e) ELSE SearchFrom(s, i + 1)
  IN IF i > Len(s) THEN [matched |-> FALSE, group1 |-> None, group2 |-> None]
     ELSE Try(VersionEnd(s, i))

\* re.search(LKGM_RE, s)
LKGM_RE(s) == SearchFrom(s, 1)

(***************************************************************************)
(* manifest_version.VersionInfo: the four-component version the candidate  *)
(* class extends.  Its module is not part of the sources at hand; it is    *)
(* modelled from its documented contract (four non-negative integers,      *)
(* printed 'major.minor.sp.patch').                                        *)
(***************************************************************************)
Raise(e) == [t |-> "raise", err |-> e]

\* s.split('.'): the texts between the dots of s.
RECURSIVE Split(_, _, _)
Split(s, i, part) ==
  IF i > Len(s) THEN <<part>>
  ELSE IF s[i] = "." THEN <<part>> \o Split(s, i + 1, <<>>)
  ELSE Split(s, i + 1, part \o <<s[i]>>)

\* VersionInfo(version_string): the four integers of 'a.b.c.d'.
VersionInfo(s) ==
  LET Of(parts) == [t         |-> "version",
                    ver_maj   |-> StrInt(parts[1]),
                    ver_min   |-> StrInt(parts[2]),
                    ver_sp    |-> StrInt(parts[3]),
                    ver_patch |-> StrInt(parts[4])]
  IN Of(Split(s, 1, <<>>))

\* VersionInfo.VersionString(): 'major.minor.sp.patch'.
BaseVersionString(v) ==
  IntStr(v.ver_maj) \o <<".">> \o IntStr(v.ver_min) \o <<".">>
    \o IntStr(v.ver_sp) \o <<".">> \o IntStr(v.ver_patch)

\* VersionInfo.DirPrefix(): the store's bucket of a version, 'major.minor'.
DirPrefix(v) == IntStr(v.ver_maj) \o <<".">> \o IntStr(v.ver_min)

(***************************************************************************)
(* _LKGMCandidateInfo                                                      *)
(***************************************************************************)
\* Python values handed to the constructor: a text, or the bound method
\* version_info.VersionString itself (not its result).
PyText(s) == [t |-> "str", s |-> s]

PyMethod == [t |-> "method", s |-> <<>>]

PyNone == [t |-> "None", s |-> <<>>]

\* A readable version file, by the version text it holds.
VersionFile(content) == [t |-> "file", s |-> content]

\* `if version_string:` (line 49): None and the empty text are false, a
\* non-empty text and a bound method are true.
PyTruthy(x) == x.t = "method" \/ (x.t = "str" /\ x.s # <<>>)

\* A revision as the constructor leaves it: the text of regex group 2, or
\* the integer 1 when the group is absent.
RevText(s) == [t |-> "str", s |-> s, n |-> 0]

RevInt(n) == [t |-> "int", s |-> <<>>, n |-> n]

\* '%s' % ver_revision, and int(ver_revision).
RevStr(r) == IF r.t = "str" THEN r.s ELSE IntStr(r.n)

\* A revision read by its leading character only, as text order reads it.
RevLeadingDigit(r) == IF r.t = "str" THEN DigitVal(r.s[1]) ELSE r.n

RevNum(r) == IF r.t = "str" THEN StrInt(r.s) ELSE r.n

\* VersionInfo(version_file=version_file): the four integers read from the
\* file; without a readable file the version source is unavailable.
LoadVersion(version_file) ==
  IF version_file.t = "file" THEN VersionInfo(version_file.s)
  ELSE Raise("VersionSourceUnavailable")

\* _LKGMCandidateInfo(version_string, version_file), lines 47-59.  With a
\* true version_string: re.search on anything but text raises TypeError, a
\* text without a version fails the assert, and an absent group 2 leaves
\* ver_revision = 1.  With a false one (None, ''): the base class loads the
\* version from version_file and ver_revision is 1.
LKGMCandidateInfo(version_string, version_file) ==
  LET Fields(v, revision) ==
        IF v.t = "raise" THEN v
        ELSE [t            |-> "info",
              ver_maj      |-> v.ver_maj,
              ver_min      |-> v.ver_min,
              ver_sp       |-> v.ver_sp,
              ver_patch    |-> v.ver_patch,
              ver_revision |-> revision]
      Matched(match) ==
        IF ~match.matched THEN Raise("AssertionError")
        ELSE Fields(VersionInfo(match.group1),
                    IF match.group2 = None THEN RevInt(1)
                    ELSE RevText(match.group2))
  IN IF PyTruthy(version_string)
     THEN IF version_string.t # "str" THEN Raise("TypeError")
          ELSE Matched(LKGM_RE(version_string.s))
     ELSE Fields(LoadVersion(version_file), RevInt(1))

\* _LKGMCandidateInfo.VersionString(): 'major.minor.sp.patch-rcREV'.
\* The printed form cut short of its revision suffix.
VersionStringNoSuffix(info) == BaseVersionString(info)

VersionString(info) ==
  BaseVersionString(info) \o <<"-", "r", "c">> \o RevStr(info.ver_revision)

\* _LKGMCandidateInfo.VersionCompare(version_string): the integer key
\* [major, minor, sp, patch, revision] (the constructor's failure, if any).
VersionCompare(s) ==
  LET Key(lkgm) ==
        IF lkgm.t = "raise" THEN lkgm
        ELSE [t |-> "key",
              k |-> <<lkgm.ver_maj, lkgm.ver_min, lkgm.ver_sp, lkgm.ver_patch,
                      RevNum(lkgm.ver_revision)>>]
  IN Key(LKGMCandidateInfo(PyText(s), PyNone))

\* _LKGMCandidateInfo.IncrementVersion(message, dry_run): it reads
\* self.version_revision, an attribute no constructor sets (the revision is
\* kept in ver_revision), so the augmented assignment raises.
IncrementVersion(info) == Raise("AttributeError")

\* Python's order of two lists of integers.
RECURSIVE ListLess(_, _)
ListLess(a, b) ==
  IF Len(b) = 0 THEN FALSE
  ELSE IF Len(a) = 0 THEN TRUE
  ELSE IF a[1] # b[1] THEN a[1] < b[1]
  ELSE ListLess(Tail(a), Tail(b))

(***************************************************************************)
(* Bounds of the model, and the inputs drawn within them                   *)
(***************************************************************************)
\* Revisions the store's candidates carry: rc1 .. rcMaxRev.
MaxRev == 2

\* Buildspecs the store holds at most.
MaxPublished == 2

\* Calls of the manager's entry points in one run.
MaxCalls == 2

\* Two builders of cbuildbot_config.config: a master and a non-master.
Master == "x86-generic-pre-flight-queue"

Slave == "x86-alex-pre-flight-branch"

Builders == {Master, Slave}

\* The versions a version file holds: 1.2.0.0 and 1.2.0.1.
Version(patch) ==
  [t |-> "version", ver_maj |-> 1, ver_min |-> 2, ver_sp |-> 0, ver_patch |-> patch]

BaselineOrder == <<Version(0), Version(1)>>

Baselines == {BaselineOrder[i] : i \in 1..Len(BaselineOrder)}

\* The names a buildspec is published under: 'M.m.s.p-rcN', and the bare
\* 'M.m.s.p' the pattern also reads.
CandidateName(v, rev) == BaseVersionString(v) \o <<"-", "r", "c">> \o IntStr(rev)

NamesOf(v) == <<BaseVersionString(v)>> \o [r \in 1..MaxRev |-> CandidateName(v, r)]

\* The store's names, in the order a listing of the store yields them: the
\* candidates of the first baseline (the version file may have moved on to
\* the next one since they were published).
NameOrder == NamesOf(BaselineOrder[1])

Names == {NameOrder[i] : i \in 1..Len(NameOrder)}

\* The peers a poll is asked about.
OthersInputs == {<<>>, <<Slave>>, <<Master, Slave>>}

\* The constructor's result and the sort key of each of the store's names,
\* tabulated once.
InfoOfName == [n \in Names |-> LKGMCandidateInfo(PyText(n), PyNone)]

KeyOfName == [n \in Names |-> VersionCompare(n).k]

\* self.compare_versions_fn, line 89
compare_versions_fn(s) == IF s \in Names THEN KeyOfName[s] ELSE VersionCompare(s).k

\* sorted(names, key=self.compare_versions_fn): each name's key is computed
\* once, and the <<key, name>> pairs are put in ascending order of their
\* keys, equal keys staying in their order (the sort is stable).
RECURSIVE Insert(_, _)
Insert(sorted, x) ==
  IF Len(sorted) = 0 THEN <<x>>
  ELSE IF ListLess(x[1], sorted[Len(sorted)][1])
       THEN Insert(SubSeq(sorted, 1, Len(sorted) - 1), x) \o <<sorted[Len(sorted)]>>
       ELSE sorted \o <<x>>

RECURSIVE SortKeyed(_)
SortKeyed(pairs) ==
  IF Len(pairs) = 0 THEN <<>>
  ELSE Insert(SortKeyed(SubSeq(pairs, 1, Len(pairs) - 1)), pairs[Len(pairs)])

Sorted(names) ==
  LET Names2(pairs) == [i \in 1..Len(pairs) |-> pairs[i][2]]
  IN Names2(SortKeyed([i \in 1..Len(names) |->
                         <<compare_versions_fn(names[i]), names[i]>>]))

(***************************************************************************)
(* manifest_version.BuildSpecsManager: the store operations the manager    *)
(* inherits.  The base class is not part of the sources at hand; these are  *)
(* modelled from the documented store interface (refresh and list, publish, *)
(* mark in flight).                                                        *)
(***************************************************************************)
\* The store's bucket of a published name.
BucketOfName == [n \in Names |-> DirPrefix(InfoOfName[n])]

BucketOf(n) == IF n \in Names THEN BucketOfName[n]
               ELSE DirPrefix(LKGMCandidateInfo(PyText(n), PyNone))

\* The store's names as the manager's compare_versions_fn sorts them.
StoreOrder == Sorted(NameOrder)

\* _LoadSpecs, self.all: the published names of the baseline's bucket, sorted
\* by the manager's compare_versions_fn (a stable sort: the published names
\* come in the order sorting the whole listing gives them).
LoadAll(pub, version_info) ==
  LET InBucket(n) == n \in pub /\ BucketOf(n) = DirPrefix(version_info)
  IN SelectSeq(StoreOrder, InBucket)

\* A builder has processed a candidate once it holds a marker for it.
Processed(mk, b, n) == \E st \in {"inflight", "pass", "fail"} : <<b, st, n>> \in mk

\* _LoadSpecs, self.latest_unprocessed: the latest candidate of self.all the
\* builder has not processed yet, or None.
LatestUnprocessed(names, mk, b) ==
  LET Fresh(n) == ~Processed(mk, b, n)
      Last(fresh) == IF Len(fresh) = 0 THEN None ELSE fresh[Len(fresh)]
  IN Last(SelectSeq(names, Fresh))

\* _CreateNewBuildSpec(version_info): None when nothing changed since the
\* last candidate; else the candidate's name, its revision incremented when
\* that name is already published.  It reads its argument as a version info,
\* which a list is not.
CreateNewBuildSpec(lkgm_info, pub, changed) ==
  LET Publish(name) == IF name \in pub THEN IncrementVersion(lkgm_info)
                       ELSE [t |-> "spec", name |-> name]
  IN IF lkgm_info.t # "info" THEN Raise("AttributeError")
     ELSE IF ~changed THEN [t |-> "spec", name |-> None]
     ELSE Publish(VersionString(lkgm_info))

(***************************************************************************)
(* LKGMManager                                                             *)
(***************************************************************************)
\* Python's truth value of a text or None.
Truthy(x) == x # None /\ x # <<>>

\* _GetLatestLKGMCandidate(version_info), lines 98-109: the names of self.all
\* equal to the version file's 'M.m.s.p', sorted, as a list; with none, the
\* candidate class is handed the bound method VersionString.
GetLatestLKGMCandidate(names, version_info) ==
  LET Matches(ver) == ver = BaseVersionString(version_info)
      Latest(matched_lkgms) ==
        IF Len(names) > 0 /\ Len(matched_lkgms) > 0
        THEN [t |-> "list", items |-> Sorted(matched_lkgms)]
        ELSE LKGMCandidateInfo(PyMethod, PyNone)
  IN Latest(SelectSeq(names, Matches))

\* 'Automatic: Start %s %s' % (self.build_name, self.current_version)
CommitMessage(build_name, version) ==
  <<"Automatic: Start ", build_name, " ">> \o PyStr(version)

\* A manager that returns its candidate without claiming it.
NoSetInFlight(name, version) == <<>>

\* The _SetInFlight calls of lines 128-132 and 157-161: one, when
\* self.current_version is truthy.
SetInFlightCalls(build_name, version) ==
  IF Truthy(version)
  THEN <<[build_name |-> build_name, candidate |-> version,
          message |-> CommitMessage(build_name, version)]>>
  ELSE <<>>

\* The exceptions the entry points catch and wrap (lines 136-140, 165-169).
Caught(e) == e \in {"RunCommandError", "GitCommandException"}

Surfaced(e) == IF Caught(e) THEN "GenerateBuildSpecException" ELSE e

\* Lines 127-134 and 156-163 once self.current_version is assigned: claim
\* it when truthy, then return it.  io = "inflight" is the store failing the
\* marker's commit.
ClaimAndReturn(name, version, io, mk) ==
  LET Wrote(calls) == {<<calls[i].build_name, "inflight", calls[i].candidate>> :
                         i \in 1..Len(calls)}
      Outcome(calls) ==
        IF Len(calls) > 0 /\ io = "inflight"
        THEN [kind |-> "raise", err |-> Surfaced("GitCommandException"),
              ret |-> None, inflight |-> calls, markers |-> mk]
        ELSE [kind |-> "return", err |-> "", ret |-> version,
              inflight |-> calls, markers |-> mk \cup Wrote(calls)]
  IN Outcome(SetInFlightCalls(name, version))

(***************************************************************************)
(* GetOthersStatuses, lines 171-213                                        *)
(***************************************************************************)
MAX_TIMEOUT_SECONDS == 300

SLEEP_TIMEOUT == 30

\* Seconds one round of the loop may take besides its sleep: half the budget,
\* or all of it.
RoundSeconds == {MAX_TIMEOUT_SECONDS \div 2, MAX_TIMEOUT_SECONDS}

\* Seconds that have passed between start_time being read (line 183) and the
\* loop's first test (line 188): none to speak of, or the whole budget.
StartSeconds == {0, MAX_TIMEOUT_SECONDS}

Min(a, b) == IF a < b THEN a ELSE b

\* The builder component of specs_for_build, line 178: the text
\* '%{build_name}s', as the tokens the % operator reads.
BuildNameTemplate == <<"%", "{", "build_name", "}", "s">>

\* The mapping of lines 192-194: {'build-name': other}.
BuildNameMapping(other) == [key |-> "build-name", value |-> other]

\* What may follow a '%' in the left operand of str % dict: the '(' of a
\* mapping key, a flag, a width, the '.' of a precision, a length modifier,
\* and last the conversion character, '%' among them.
ConversionFlags == {"-", "+", " ", "#", "0"}

LengthModifiers == {"h", "l", "L"}

ConversionTypes == {"%", "s", "r", "i", "d", "u", "o", "x", "X", "e", "E",
                    "f", "F", "g", "G", "c"}

ConversionSyntax ==
  {"(", "*", "."} \cup ConversionFlags \cup {Digits[i] : i \in 1..Len(Digits)}
    \cup LengthModifiers \cup ConversionTypes

\* pass_file, fail_file or inflight_file % {'build-name': other}, lines
\* 192-194, for the paths of lines 177-181, whose one '%' is that of
\* '%{build_name}s' (the tree's root is a path without '%'; the directory
\* prefix and the file name stand after it).  The character after that '%'
\* opens no key, flag, width, precision or length modifier, so it is read as
\* the conversion character: the operator takes its argument, the mapping,
\* which no earlier conversion has used, and finds the character to be no
\* conversion type.  The mapping's content is never looked at.
FormatBuildName(mapping) ==
  CASE BuildNameTemplate[1] = "%" /\ BuildNameTemplate[2] \notin ConversionSyntax
         -> Raise("ValueError")

XmlName(version) == version \o <<".", "x", "m", "l">>

\* A marker's path in the store:
\* <manifest-root>/LKGM-candidates/build-name/<builder>/<status>/<dir-prefix>/<candidate>.xml
MarkerPath(b, st, n) ==
  [builder |-> <<b>>, status |-> st, dir_pfx |-> BucketOf(n), file |-> XmlName(n)]

\* os.path.lexists on the manifest tree.
lexists(path, mk) == \E f \in mk : MarkerPath(f[1], f[2], f[3]) = path

\* pass_file, fail_file or inflight_file % {'build-name': other}, lines
\* 179-181 and 192-194.
StatusFile(st, version, other) ==
  LET Path(name) ==
        IF name.t = "raise" THEN name
        ELSE [t |-> "path",
              path |-> [builder |-> name.s, status |-> st,
                        dir_pfx |-> BucketOf(version), file |-> XmlName(version)]]
  IN Path(FormatBuildName(BuildNameMapping(other)))

StatusNone == "None"

EmptyDict == [b \in {} |-> StatusNone]

DictGet(d, k) == IF k \in DOMAIN d THEN d[k] ELSE StatusNone

DictSet(d, k, v) == [x \in DOMAIN d \cup {k} |-> IF x = k THEN v ELSE d[x]]

\* Lines 191-204 for one peer: the three paths are formatted, then looked up
\* in the order pass, fail, inflight.
QueryOther(version, other, mk) ==
  LET Status(other_pass, other_fail, other_inflight) ==
        IF other_pass.t = "raise" THEN other_pass
        ELSE IF other_fail.t = "raise" THEN other_fail
        ELSE IF other_inflight.t = "raise" THEN other_inflight
        ELSE [t |-> "status",
              status |-> IF lexists(other_pass.path, mk) THEN "pass"
                         ELSE IF lexists(other_fail.path, mk) THEN "fail"
                         ELSE IF lexists(other_inflight.path, mk) THEN "inflight"
                         ELSE StatusNone]
  IN Status(StatusFile("pass", version, other),
            StatusFile("fail", version, other),
            StatusFile("inflight", version, other))

\* The for loop of lines 190-204 from its i-th peer on.
RECURSIVE QueryOthers(_, _, _, _, _, _)
QueryOthers(version, others, i, statuses, num, mk) ==
  LET Record(q) ==
        IF q.t = "raise" THEN q
        ELSE QueryOthers(version, others, i + 1,
                         DictSet(statuses, others[i], q.status),
                         IF q.status \in {"pass", "fail"} THEN num + 1 ELSE num,
                         mk)
  IN IF i > Len(others)
     THEN [t |-> "ok", other_statuses |-> statuses, num_complete |-> num]
     ELSE IF DictGet(statuses, others[i]) \in {"pass", "fail"}
     THEN QueryOthers(version, others, i + 1, statuses, num, mk)
     ELSE Record(QueryOther(version, others[i], mk))

(***************************************************************************)
(* State: the shared store, and the manager of one builder's process.  The *)
(* other builders and the publishers of buildspecs act on the store only   *)
(* (PublishCandidate, PeerClaim, PeerReport).                              *)
(***************************************************************************)
VARIABLES
  published,           \* the store: names of the buildspecs under LKGM-candidates
  markers,             \* the store: marker files <<builder, status, name>>
  build_name,          \* self.build_name
  current_version,     \* self.current_version
  all,                 \* self.all
  latest_unprocessed,  \* self.latest_unprocessed
  poll,                \* the locals of a running GetOthersStatuses
  last,                \* the most recent call of an entry point and how it ended
  ncalls,              \* calls of the entry points so far
  cand                 \* a candidate object in use on its own, and its last call

vars == <<published, markers, build_name, current_version, all,
          latest_unprocessed, poll, last, ncalls, cand>>

NoCand == [op |-> "none"]

NoPoll == [pc |-> "idle", others |-> <<>>, other_statuses |-> EmptyDict,
           num_complete |-> 0, elapsed |-> 0, synced |-> FALSE,
           slept |-> 0]

NoSel == [t |-> "none"]

NoCall == [op |-> "", kind |-> "", ret |-> None, err |-> "", inflight |-> <<>>,
           sel |-> NoSel, baseline |-> <<>>, others |-> <<>>,
           statuses |-> EmptyDict, reported |-> FALSE]

\* LKGMManager(..., build_name, dry_run), lines 85-89.
Init ==
  /\ published = {}
  /\ markers = {}
  /\ build_name \in Builders
  /\ current_version = None
  /\ all = <<>>
  /\ latest_unprocessed = None
  /\ poll = NoPoll
  /\ last = NoCall
  /\ ncalls = 0
  /\ cand = NoCand

(***************************************************************************)
(* The store, as its other users change it                                 *)
(***************************************************************************)
\* Another program publishes a buildspec.
PublishCandidate(n) ==
  /\ UNCHANGED cand
  /\ n \notin published
  /\ Cardinality(published) < MaxPublished
  /\ published' = published \cup {n}
  /\ UNCHANGED <<markers, build_name, current_version, all, latest_unprocessed,
                 poll, last, ncalls>>

\* Another builder claims a candidate the way this one does (lines 153-161):
\* the latest published candidate it has not processed yet.
PeerClaim(b, n) ==
  /\ UNCHANGED cand
  /\ b # build_name
  /\ n \in published
  /\ n = LatestUnprocessed(LoadAll(published, InfoOfName[n]), markers, b)
  /\ markers' = markers \cup {<<b, "inflight", n>>}
  /\ UNCHANGED <<published, build_name, current_version, all, latest_unprocessed,
                 poll, last, ncalls>>

\* Another builder that claimed a candidate finishes it: a pass or a fail
\* marker appears beside its inflight marker, once.
PeerReport(b, st, n) ==
  /\ UNCHANGED cand
  /\ b # build_name
  /\ <<b, "inflight", n>> \in markers
  /\ <<b, "pass", n>> \notin markers
  /\ <<b, "fail", n>> \notin markers
  /\ markers' = markers \cup {<<b, st, n>>}
  /\ UNCHANGED <<published, build_name, current_version, all, latest_unprocessed,
                 poll, last, ncalls>>

(***************************************************************************)
(* The manager's entry points                                              *)
(***************************************************************************)
Failed(op, baseline, e, sel) ==
  [NoCall EXCEPT !.op = op, !.kind = "raise", !.err = Surfaced(e), !.sel = sel,
                 !.baseline = baseline]

Ended(op, baseline, out, sel) ==
  [NoCall EXCEPT !.op = op, !.kind = out.kind, !.ret = out.ret, !.err = out.err,
                 !.inflight = out.inflight, !.sel = sel, !.baseline = baseline]

\* CreateNextLKGMCandidate(version_file), lines 111-140.  baseline is what
\* the version file holds; io names the step the outside world fails, if any.
CreateNextLKGMCandidate ==
  /\ UNCHANGED cand
  /\ poll.pc = "idle"
  /\ ncalls < MaxCalls
  /\ ncalls' = ncalls + 1
  /\ \E baseline \in Baselines, io \in {"none", "version", "load"} :
       IF io # "none"
       THEN /\ last' = Failed("CreateNext", baseline,
                              IF io = "version" THEN "RunCommandError"
                              ELSE "GitCommandException", NoSel)
            /\ UNCHANGED <<published, markers, current_version, all,
                           latest_unprocessed>>
       ELSE LET names == LoadAll(published, baseline)
                lkgm_info == GetLatestLKGMCandidate(names, baseline)
            IN /\ all' = names
               /\ latest_unprocessed' = LatestUnprocessed(names, markers, build_name)
               /\ IF lkgm_info.t = "raise"
                  THEN /\ last' = Failed("CreateNext", baseline, lkgm_info.err, lkgm_info)
                       /\ UNCHANGED <<published, markers, current_version>>
                  ELSE \E changed \in BOOLEAN, io2 \in {"none", "write", "inflight"} :
                         LET spec == IF lkgm_info.t = "info" /\ io2 = "write"
                                     THEN Raise("GitCommandException")
                                     ELSE CreateNewBuildSpec(lkgm_info, published, changed)
                             out == ClaimAndReturn(build_name, spec.name, io2, markers)
                         IN IF spec.t = "raise"
                            THEN /\ last' = Failed("CreateNext", baseline, spec.err, lkgm_info)
                                 /\ UNCHANGED <<published, markers, current_version>>
                            ELSE /\ current_version' = spec.name
                                 /\ published' = IF Truthy(spec.name)
                                                 THEN published \cup {spec.name}
                                                 ELSE published
                                 /\ markers' = out.markers
                                 /\ last' = Ended("CreateNext", baseline, out, lkgm_info)
  /\ UNCHANGED <<build_name, poll>>

\* GetNextLKGMCandidate(version_file), lines 142-169.
GetNextLKGMCandidate ==
  /\ UNCHANGED cand
  /\ poll.pc = "idle"
  /\ ncalls < MaxCalls
  /\ ncalls' = ncalls + 1
  /\ \E baseline \in Baselines, io \in {"none", "version", "load", "inflight"} :
       IF io = "version" \/ io = "load"
       THEN /\ last' = Failed("GetNext", baseline,
                              IF io = "version" THEN "RunCommandError"
                              ELSE "GitCommandException", NoSel)
            /\ UNCHANGED <<markers, current_version, all, latest_unprocessed>>
       ELSE LET names == LoadAll(published, baseline)
                latest == LatestUnprocessed(names, markers, build_name)
                out == ClaimAndReturn(build_name, latest, io, markers)
            IN /\ all' = names
               /\ latest_unprocessed' = latest
               /\ current_version' = latest
               /\ markers' = out.markers
               /\ last' = Ended("GetNext", baseline, out, NoSel)
  /\ UNCHANGED <<published, build_name, poll>>

\* PromoteLKGMCandidate(), lines 215-218: the body is `pass`.
PromoteLKGMCandidate ==
  /\ UNCHANGED cand
  /\ poll.pc = "idle"
  /\ ncalls < MaxCalls
  /\ ncalls' = ncalls + 1
  /\ last' = [NoCall EXCEPT !.op = "Promote", !.kind = "return"]
  /\ UNCHANGED <<published, markers, build_name, current_version, all,
                 latest_unprocessed, poll>>

PollEnded(others, kind, err, statuses, reported) ==
  [NoCall EXCEPT !.op = "GetOthersStatuses", !.kind = kind, !.err = err,
                 !.others = others, !.statuses = statuses, !.reported = reported]

\* GetOthersStatuses(others) up to the loop, lines 173-185.  None + '.xml'
\* raises TypeError.  Whether a current version has DirPrefix() and the
\* manager a manifest_dir is for the base classes, which are not at hand:
\* both outcomes are kept.  The time limit may already have passed when the
\* loop is first tested.
GetOthersStatuses ==
  /\ UNCHANGED cand
  /\ poll.pc = "idle"
  /\ ncalls < MaxCalls
  /\ ncalls' = ncalls + 1
  /\ \E others \in OthersInputs, supported \in BOOLEAN, late \in StartSeconds :
       IF current_version = None
       THEN /\ last' = PollEnded(others, "raise", "TypeError", EmptyDict, FALSE)
            /\ poll' = poll
       ELSE IF ~supported
       THEN /\ last' = PollEnded(others, "raise", "AttributeError", EmptyDict, FALSE)
            /\ poll' = poll
       ELSE /\ last' = PollEnded(others, "running", "", EmptyDict, FALSE)
            /\ poll' = [NoPoll EXCEPT !.pc = "loop", !.others = others,
                                       !.elapsed = late]
  /\ UNCHANGED <<published, markers, build_name, current_version, all,
                 latest_unprocessed>>

\* One round of the while loop, lines 188-208: the sync, the queries, and
\* the sleep when some peer is not complete.  spent is the time the round
\* takes besides the sleep.
PollRound ==
  /\ UNCHANGED cand
  /\ poll.pc = "loop"
  /\ poll.elapsed < MAX_TIMEOUT_SECONDS
  /\ \E spent \in RoundSeconds, sync \in {"ok", "RunCommandError"} :
       IF sync # "ok"
       THEN /\ last' = PollEnded(poll.others, "raise", sync, EmptyDict, FALSE)
            /\ poll' = NoPoll
       ELSE LET r == QueryOthers(current_version, poll.others, 1,
                                 poll.other_statuses, poll.num_complete, markers)
            IN IF r.t = "raise"
               THEN /\ last' = PollEnded(poll.others, "raise", r.err, EmptyDict, FALSE)
                    /\ poll' = NoPoll
               ELSE LET sleep == IF r.num_complete < Len(poll.others)
                                 THEN SLEEP_TIMEOUT ELSE 0
                    IN /\ poll' = [poll EXCEPT
                                     !.synced = TRUE,
                                     !.slept = sleep,
                                     !.other_statuses = r.other_statuses,
                                     !.num_complete = r.num_complete,
                                     !.elapsed = Min(poll.elapsed + spent + sleep,
                                                     MAX_TIMEOUT_SECONDS)]
                       /\ last' = last
  /\ UNCHANGED <<published, markers, build_name, current_version, all,
                 latest_unprocessed, ncalls>>

\* The loop's exit and lines 210-213: the error is logged when not all
\* peers completed, and the statuses are returned.
PollReturn ==
  /\ UNCHANGED cand
  /\ poll.pc = "loop"
  /\ poll.elapsed >= MAX_TIMEOUT_SECONDS
  /\ last' = PollEnded(poll.others, "return", "", poll.other_statuses,
                       poll.num_complete # Len(poll.others))
  /\ poll' = NoPoll
  /\ UNCHANGED <<published, markers, build_name, current_version, all,
                 latest_unprocessed, ncalls>>

(***************************************************************************)
(* The system                                                              *)
(***************************************************************************)
Next ==
  \/ \E n \in Names : PublishCandidate(n)
  \/ \E b \in Builders, n \in Names : PeerClaim(b, n)
  \/ \E b \in Builders, st \in {"pass", "fail"}, n \in Names : PeerReport(b, st, n)
  \/ CreateNextLKGMCandidate
  \/ GetNextLKGMCandidate
  \/ GetOthersStatuses
  \/ PollRound
  \/ PollReturn
  \/ PromoteLKGMCandidate

Spec == Init /\ [][Next]_vars

(***************************************************************************)
(* The candidate class on its own: an object is constructed from a version  *)
(* string and its methods are called.  The manager and the store stand      *)
(* still.                                                                  *)
(***************************************************************************)
MaxPart == 1

\* The edge between one and two decimal digits.
DigitEdge == {Len(Digits) - 1, Len(Digits)}

PartInputs == 0..MaxPart

PatchInputs == PartInputs \cup DigitEdge

RevInputs == (1..MaxPart) \cup DigitEdge

\* What a version string is written from: four components and, when rc is
\* set, a revision.
CandidateInputs ==
  [ver_maj : PartInputs, ver_min : PartInputs, ver_sp : PartInputs,
   ver_patch : PatchInputs, rc : {TRUE}, rev : RevInputs]
  \cup [ver_maj : PartInputs, ver_min : PartInputs, ver_sp : PartInputs,
        ver_patch : PatchInputs, rc : {FALSE}, rev : {1}]

\* 'M.m.s.p' or 'M.m.s.p-rcN' as decimal text.
TextOf(c) ==
  LET Base == IntStr(c.ver_maj) \o <<".">> \o IntStr(c.ver_min) \o <<".">>
              \o IntStr(c.ver_sp) \o <<".">> \o IntStr(c.ver_patch)
  IN IF c.rc THEN Base \o <<"-", "r", "c">> \o IntStr(c.rev) ELSE Base

manager_vars == <<published, markers, build_name, current_version, all,
                  latest_unprocessed, poll, last, ncalls>>

CandInit ==
  /\ published = {}
  /\ markers = {}
  /\ build_name = Master
  /\ current_version = None
  /\ all = <<>>
  /\ latest_unprocessed = None
  /\ poll = NoPoll
  /\ last = NoCall
  /\ ncalls = 0
  /\ \E c \in CandidateInputs :
       cand = [op |-> "input", c |-> c, text |-> TextOf(c)]

\* The ways the constructor is called on a version text: with the text as
\* version_string; with no version_string, or an empty one, and no file; and,
\* for a bare version, with no or an empty version_string and a version file
\* holding the text.
ConstructorArgs(c, text) ==
  {[version_string |-> PyText(text), version_file |-> PyNone]}
  \cup [version_string : {PyNone, PyText(<<>>)},
        version_file : {PyNone} \cup (IF c.rc THEN {} ELSE {VersionFile(text)})]

\* The call names a version to construct from.
Sourced(args) == PyTruthy(args.version_string) \/ args.version_file.t = "file"

\* _LKGMCandidateInfo(version_string, version_file), lines 47-59.
Construct ==
  /\ cand.op = "input"
  /\ \E args \in ConstructorArgs(cand.c, cand.text) :
       cand' = [op |-> "__init__", c |-> cand.c, text |-> cand.text,
                args |-> args,
                info |-> LKGMCandidateInfo(args.version_string,
                                           args.version_file)]
  /\ UNCHANGED manager_vars

\* info.VersionString(), lines 61-64.
CallVersionString ==
  /\ cand.op = "__init__"
  /\ cand.info.t = "info"
  /\ cand' = [op |-> "VersionString", c |-> cand.c, text |-> cand.text,
              args |-> cand.args, info |-> cand.info, out |-> VersionString(cand.info)]
  /\ UNCHANGED manager_vars

\* _LKGMCandidateInfo(info.VersionString()): the printed form parsed again.
Reconstruct ==
  /\ cand.op = "VersionString"
  /\ cand' = [op |-> "reparse", c |-> cand.c, text |-> cand.text,
              args |-> cand.args, info |-> cand.info, out |-> cand.out,
              back |-> LKGMCandidateInfo(PyText(cand.out), PyNone)]
  /\ UNCHANGED manager_vars

\* Two version strings ordered as sorted(..., key=compare_versions_fn) orders
\* them: by their keys, as Python compares lists (lines 66-71, 89).
CallVersionCompare(d) ==
  /\ cand.op = "__init__"
  /\ cand.info.t = "info"
  /\ cand' = [op |-> "VersionCompare", c |-> cand.c, text |-> cand.text,
              args |-> cand.args, info |-> cand.info, d |-> d, other |-> TextOf(d),
              less |-> ListLess(compare_versions_fn(cand.text),
                                compare_versions_fn(TextOf(d)))]
  /\ UNCHANGED manager_vars

\* info.IncrementVersion(), lines 73-76; the receiver is read again after it.
CallIncrementVersion ==
  /\ cand.op = "__init__"
  /\ cand.info.t = "info"
  /\ cand' = [op |-> "IncrementVersion", c |-> cand.c, text |-> cand.text,
              args |-> cand.args, info |-> cand.info, out |-> IncrementVersion(cand.info),
              after |-> cand.info]
  /\ UNCHANGED manager_vars

CandNext ==
  \/ Construct
  \/ CallVersionString
  \/ Reconstruct
  \/ \E d \in CandidateInputs : CallVersionCompare(d)
  \/ CallIncrementVersion

CandSpec == CandInit /\ [][CandNext]_vars

(***************************************************************************)
(* Properties                                                              *)
(***************************************************************************)
\* The step in which GetOthersStatuses is called: it raises before the loop
\* or enters it.
PollCalled == poll.pc = "idle" /\ ncalls' = ncalls + 1
              /\ last'.op = "GetOthersStatuses"

\* A step that is one round of the loop.
RoundStep == poll.pc = "loop" /\ poll.elapsed < MAX_TIMEOUT_SECONDS /\ poll' # poll

\* The step in which a call of GetOthersStatuses ends.
PollEnds == (PollCalled \/ poll.pc = "loop")
            /\ last'.op = "GetOthersStatuses" /\ last'.kind \in {"return", "raise"}

\* The store could not be synced: the one failure a poll may surface.
SyncFailed == last'.kind = "raise" /\ last'.err = "RunCommandError"

\* The snapshot a step of the poll leaves: the loop's, or the one returned.
SnapshotAfter == IF poll'.pc = "loop" THEN poll'.other_statuses ELSE last'.statuses

\* The status the store holds for peer p and the current candidate.
StoredStatus(p) ==
  IF <<p, "pass", current_version>> \in markers THEN "pass"
  ELSE IF <<p, "fail", current_version>> \in markers THEN "fail"
  ELSE IF <<p, "inflight", current_version>> \in markers THEN "inflight"
  ELSE StatusNone

Peers(others) == {others[i] : i \in 1..Len(others)}

AllPass(others) == others # <<>> /\ \A p \in Peers(others) : StoredStatus(p) = "pass"

\* C1: a poll called while every peer holds a pass marker for the current
\* candidate does not raise, and its first round ends it: the call returns
\* after that round with every peer mapped to pass.
C1_AllPassReturnsAfterFirstRound ==
  [][/\ (PollCalled /\ current_version # None /\ AllPass(last'.others))
          => last'.kind # "raise"
     /\ (RoundStep /\ poll.elapsed = 0 /\ AllPass(poll.others) /\ ~SyncFailed)
          => /\ poll'.pc = "idle"
             /\ last'.kind = "return"
             /\ \A p \in Peers(poll.others) : DictGet(last'.statuses, p) = "pass"]_vars

\* C2: a poll of one peer whose only marker for the current candidate is the
\* inflight one raises no error, and its round leaves that peer inflight in
\* the snapshot.
StuckInflight(others) ==
  /\ Len(others) = 1
  /\ StoredStatus(others[1]) = "inflight"

C2_StuckPeerStaysInflightNoError ==
  [][/\ (PollCalled /\ current_version # None /\ StuckInflight(last'.others))
          => last'.kind # "raise"
     /\ (RoundStep /\ poll.elapsed = 0 /\ StuckInflight(poll.others) /\ ~SyncFailed)
          => /\ last'.kind # "raise"
             /\ DictGet(SnapshotAfter, poll.others[1]) = "inflight"]_vars

\* C3: a poll of a claimed candidate ends by returning, whatever the peers
\* do, and it runs a further round only while some peer is not in a terminal
\* state and the time limit has not passed.
C3_PollReturnsAndRunsOnlyWhileNeeded ==
  [][/\ (PollCalled /\ current_version # None) => last'.kind # "raise"
     /\ (RoundStep /\ ~SyncFailed) => last'.kind # "raise"
     /\ (RoundStep /\ poll.elapsed > 0)
          => \E p \in Peers(poll.others) :
               DictGet(poll.other_statuses, p) \notin {"pass", "fail"}]_vars

\* C4: a poll that ends while some peer has no pass or fail marker for the
\* current candidate returns the partial snapshot, a status for every peer,
\* and reports that not all builders finished; it does not raise.
C4_TimeoutReturnsPartialSnapshot ==
  [][(/\ PollEnds
      /\ current_version # None
      /\ \E p \in Peers(last'.others) : StoredStatus(p) \notin {"pass", "fail"}
      /\ ~SyncFailed)
       => /\ last'.kind = "return"
          /\ last'.reported
          /\ Peers(last'.others) \subseteq DOMAIN last'.statuses]_vars

\* C5: a round records, for every peer it queries, the status that peer's
\* own markers for the current candidate give: pass, else fail, else
\* inflight, else None.
C5_RoundRecordsStoredStatus ==
  [][(RoundStep /\ ~SyncFailed)
       => \A p \in Peers(poll.others) :
            DictGet(poll.other_statuses, p) \notin {"pass", "fail"}
              => /\ p \in DOMAIN SnapshotAfter
                 /\ SnapshotAfter[p] = StoredStatus(p)]_vars

\* C6: PromoteLKGMCandidate called for a candidate some other builder has
\* failed refuses: it raises or reports, it does not return as if done.
C6_PromoteRefusesFailedCandidate ==
  [][(/\ ncalls' = ncalls + 1
      /\ last'.op = "Promote"
      /\ current_version # None
      /\ \E b \in Builders \ {build_name} : StoredStatus(b) = "fail")
       => (last'.kind = "raise" \/ last'.reported)]_vars

\* The published candidates of a baseline version, and the integer keys of
\* a set of names.
CandidatesOf(names, baseline) ==
  {n \in names : BaseVersionString(InfoOfName[n]) = BaseVersionString(baseline)}

KeysOf(names) == {KeyOfName[n] : n \in names}

KeyOfInfo(info) == <<info.ver_maj, info.ver_min, info.ver_sp, info.ver_patch,
                     RevNum(info.ver_revision)>>

\* The store did not fail the call: it raised nothing the entry points wrap.
StoreHeld == ~(last.kind = "raise" /\ last.err = "GenerateBuildSpecException")

\* C7: what CreateNextLKGMCandidate selects once the specs are loaded is one
\* candidate: of the baseline's version; with the greatest key among the
\* listed candidates of that version when there are any, with revision 1
\* when there are none.
C7_SelectsGreatestOrSynthesizesRc1 ==
  (last.op = "CreateNext" /\ last.sel.t # "none")
    => /\ last.sel.t = "info"
       /\ BaseVersionString(last.sel) = BaseVersionString(last.baseline)
       /\ LET listed == CandidatesOf(Peers(all), last.baseline)
          IN IF listed = {}
             THEN RevNum(last.sel.ver_revision) = 1
             ELSE /\ KeyOfInfo(last.sel) \in KeysOf(listed)
                  /\ \A k \in KeysOf(listed) : ~ListLess(KeyOfInfo(last.sel), k)

\* The revisions the published candidates of a baseline carry.
RevsOf(names, baseline) ==
  {RevNum(InfoOfName[n].ver_revision) : n \in CandidatesOf(names, baseline)}

\* C8: a CreateNextLKGMCandidate the store does not fail returns; a candidate
\* it returns is new, of the baseline's version, its revision 1 when no
\* candidate of that version was published and one above the greatest
\* published revision otherwise.
C8_RevisionsIncreaseByOne ==
  [][(/\ ncalls' = ncalls + 1
      /\ last'.op = "CreateNext"
      /\ ~(last'.kind = "raise" /\ last'.err = "GenerateBuildSpecException"))
       => /\ last'.kind = "return"
          /\ last'.ret # None
               => LET revs == RevsOf(published, last'.baseline)
                      next == IF revs = {} THEN 1
                              ELSE 1 + (CHOOSE r \in revs : \A q \in revs : q <= r)
                  IN /\ last'.ret \notin published
                     /\ last'.ret = CandidateName(last'.baseline, next)]_vars

\* A call of CreateNextLKGMCandidate or GetNextLKGMCandidate that returns.
ClaimCallReturns ==
  /\ ncalls' = ncalls + 1
  /\ last'.op \in {"CreateNext", "GetNext"}
  /\ last'.kind = "return"

\* C9: a call of CreateNextLKGMCandidate or GetNextLKGMCandidate that returns
\* a candidate made exactly one _SetInFlight call, for this builder and that
\* candidate, with the message 'Automatic: Start <builder> <candidate>', and
\* wrote that one marker; a call that returns None made none and wrote none.
C9_OneClaimPerReturnedCandidate ==
  [][ClaimCallReturns
       => IF last'.ret # None
          THEN /\ last'.inflight =
                    <<[build_name |-> build_name,
                       candidate  |-> last'.ret,
                       message    |-> <<"Automatic: Start ", build_name, " ">>
                                        \o last'.ret]>>
               /\ markers' = markers \cup {<<build_name, "inflight", last'.ret>>}
          ELSE /\ last'.inflight = <<>>
               /\ markers' = markers]_vars

\* GetNextLKGMCandidate has returned a candidate and claimed it.
C9_CandidateReturnedAndClaimed ==
  /\ last.op = "GetNext"
  /\ last.kind = "return"
  /\ last.ret \in Names
  /\ Len(last.inflight) = 1
  /\ <<build_name, "inflight", last.ret>> \in markers

\* C10: a master's CreateNextLKGMCandidate the store does not fail returns;
\* the candidate it returns is published and claimed under the master's
\* name, and is listed for the other builder to adopt as long as that
\* builder has not processed it.
C10_MasterPublishesForOthersToAdopt ==
  (build_name = Master /\ last.op = "CreateNext" /\ StoreHeld)
    => /\ last.kind = "return"
       /\ last.ret # None
            => /\ last.ret \in published
               /\ <<Master, "inflight", last.ret>> \in markers
               /\ ~Processed(markers, Slave, last.ret)
                    => \E i \in 1..Len(LoadAll(published, last.baseline)) :
                         LoadAll(published, last.baseline)[i] = last.ret

\* A call of CreateNextLKGMCandidate or GetNextLKGMCandidate has just ended.
CandidateCallEnded == last.op \in {"CreateNext", "GetNext"}

\* C11: a call of CreateNextLKGMCandidate or GetNextLKGMCandidate that fails
\* fails with GenerateBuildSpecException and with no other exception, and no
\* call makes more than one _SetInFlight attempt.
C11_FailuresSurfaceAsGenerationError ==
  CandidateCallEnded
    => /\ last.kind = "raise" => last.err = "GenerateBuildSpecException"
       /\ Len(last.inflight) <= 1

\* The five integers a candidate object stands for.
Components(info) == <<info.ver_maj, info.ver_min, info.ver_sp, info.ver_patch,
                      RevNum(info.ver_revision)>>

\* The five integers a version string was written from.
Written(c) == <<c.ver_maj, c.ver_min, c.ver_sp, c.ver_patch, c.rev>>

\* C12: a candidate constructed from 'M.m.s.p-rcN', from the bare 'M.m.s.p'
\* or from a version file holding the bare 'M.m.s.p' stands for (M, m, s, p, N), N being 1 for the bare form; VersionString()
\* always prints 'M.m.s.p-rcN' ('M.m.s.p-rc1' for the bare form); and the
\* candidate constructed from that printed form stands for the same five
\* integers and prints the same.  (ver_revision itself is the int 1 after
\* the bare form and the matched text otherwise; the comparison is by value.)
C12_PrintedFormParsesBack ==
  /\ (cand.op \in {"__init__", "VersionString", "reparse"} /\ Sourced(cand.args))
       => /\ cand.info.t = "info"
          /\ Components(cand.info) = Written(cand.c)
  /\ cand.op \in {"VersionString", "reparse"}
       => cand.out = TextOf([cand.c EXCEPT !.rc = TRUE])
  /\ cand.op = "reparse"
       => /\ cand.back.t = "info"
          /\ Components(cand.back) = Components(cand.info)
          /\ VersionString(cand.back) = cand.out

\* A candidate constructed from a bare two-digit-patch version has been
\* printed with -rc1 and constructed again from the printed form.
C12_BareVersionReparsed ==
  /\ cand.op = "reparse"
  /\ cand.args = [version_string |-> PyText(cand.text), version_file |-> PyNone]
  /\ ~cand.c.rc
  /\ cand.c.ver_patch = Len(Digits)
  /\ cand.info.ver_revision = RevInt(1)
  /\ cand.back.ver_revision = RevText(<<"1">>)
  /\ cand.out = cand.text \o <<"-", "r", "c", "1">>

\* Lexicographic order of two integer tuples of one length: at the first
\* place they differ, a holds the smaller number.
LexLess(a, b) ==
  \E i \in 1..Len(a) : a[i] < b[i] /\ \A j \in 1..(i - 1) : a[j] = b[j]

\* C13: of two version strings, the first sorts before the second under
\* compare_versions_fn exactly when (major, minor, sp, patch, rev) of the
\* first is lexicographically less than that of the second as integers, a
\* bare version counting as rev 1; so a smaller patch sorts first at equal
\* rev, and rcN sorts before rcN+1 of the same version, rc9 before rc10.
C13_OrderIsIntegerLexicographic ==
  cand.op = "VersionCompare"
    => (cand.less <=> LexLess(Written(cand.c), Written(cand.d)))

\* 'M.m.s.p-rc9' has been compared with 'M.m.s.p-rc10' and sorts first,
\* against the order of the two as text.
C13_Rc9BeforeRc10 ==
  /\ cand.op = "VersionCompare"
  /\ cand.c.rc /\ cand.d.rc
  /\ cand.c.rev = Len(Digits) - 1
  /\ cand.d = [cand.c EXCEPT !.rev = Len(Digits)]
  /\ cand.less
  /\ ListLess([i \in 1..Len(cand.other) |-> IF IsDigit(cand.other[i]) THEN DigitVal(cand.other[i]) ELSE 0],
              [i \in 1..Len(cand.text) |-> IF IsDigit(cand.text[i]) THEN DigitVal(cand.text[i]) ELSE 0])

\* C14: IncrementVersion() on a candidate of revision N returns the printed
\* form of the same version at revision N + 1 and leaves the version
\* components of the receiver as they were.
C14_IncrementYieldsNextRevision ==
  cand.op = "IncrementVersion"
    => /\ cand.out = PyText(TextOf([cand.c EXCEPT !.rc = TRUE,
                                                   !.rev = cand.c.rev + 1]))
       /\ <<cand.after.ver_maj, cand.after.ver_min, cand.after.ver_sp,
            cand.after.ver_patch>>
          = <<cand.c.ver_maj, cand.c.ver_min, cand.c.ver_sp, cand.c.ver_patch>>

\* A round of the loop that ran to its end: the poll goes on to the next test
\* of the loop.
RoundCompleted == RoundStep /\ poll'.pc = "loop"

\* A round runs to its end only when there is no peer to query: it syncs,
\* reads no marker and does not sleep.  A round with a peer has synced
\* (line 189) when its first query raises at line 192, before any lexists.
CompletedRoundsQueryNoPeer ==
  [][RoundCompleted
       => /\ poll.others = <<>>
          /\ poll'.synced
          /\ poll'.slept = 0]_vars

\* The step in which a call of GetOthersStatuses returns.
PollReturns == PollEnds /\ last'.kind = "return"

\* C19: the dictionary GetOthersStatuses returns has the names in others,
\* and no other, as its keys, also when the time limit has passed by the
\* first test of the loop.
C19_SnapshotKeysArePeerNames ==
  [][PollReturns
       => \A b \in Builders :
            (b \in DOMAIN last'.statuses) <=> (b \in Peers(last'.others))]_vars

\* After a call of CreateNextLKGMCandidate or GetNextLKGMCandidate, however it
\* ended, the candidate the manager holds is one it has claimed.
HeldCandidateIsClaimed ==
  current_version # None => <<build_name, "inflight", current_version>> \in markers

\* C20: after a call of CreateNextLKGMCandidate or GetNextLKGMCandidate,
\* returned or failed, current_version is set only if this builder's
\* in-flight marker for that candidate was written; a call that failed with
\* GenerateBuildSpecException leaves no selected but unclaimed candidate.
C20_NoUnclaimedCurrentVersion ==
  CandidateCallEnded => HeldCandidateIsClaimed

\* No snapshot, in the loop or returned, ever holds an entry: the first query
\* of a round raises (line 192) before line 196 and the lines after it can
\* record a status, so no entry reaches pass or fail and the counter stays 0.
SnapshotsStayEmpty ==
  /\ DOMAIN poll.other_statuses = {}
  /\ poll.num_complete = 0
  /\ DOMAIN last.statuses = {}

\* GetOthersStatuses returns only for an empty list of peers or when the time
\* limit had passed by the first test of the loop.
ReturnsOnlyWithoutQueries ==
  [][PollReturns => (last'.others = <<>> \/ ~poll.synced)]_vars

=============================================================================
